---- MODULE Spec2Model ----
(***************************************************************************)
(* Model of backend/scripts/generate_theme_seed.py: generate_sql() reads   *)
(* the theme.json of each identifier of THEMES_TO_SEED, formats one SQL    *)
(* row tuple per theme it finds and writes header + rows + footer to the   *)
(* migration file.                                                         *)
(*                                                                         *)
(* Text (a Python str, a file's content) is a sequence of tokens.  The     *)
(* characters that carry syntax (the quotes, the dollar sign, the JSON     *)
(* punctuation, the escapes) are tokens of their own; a run of ordinary    *)
(* characters is one token.                                                *)
(***************************************************************************)
EXTENDS Integers, Sequences, FiniteSets, TLC

\* ------------------------------------------------------------------------
\* Bounds of the model

\* The file systems of the model are of two families.  In the family
\* "presence" any of the theme files may be absent, and a theme file that
\* is there holds the plain document {} or is one that ends the run
\* (BrokenFiles).  In the family "documents" all theme files but MaxOdd are
\* there and hold the plain document; each of the others is absent, holds
\* a document out of RichTexts or is out of BrokenFiles.
MaxOdd == 1

\* ------------------------------------------------------------------------
\* State

VARIABLES
    themes,     \* themes[i]: what is at the theme.json of THEMES_TO_SEED[i]
    family,     \* the family the file system is of: "presence", "documents"
    odd,        \* "documents": how many more theme files may be other than plain
    output,     \* the migration file
    before,     \* the migration file as it was when the run started
    pc,         \* "loop", "write" (the file is open), "done", "failed"
    idx,        \* the loop's idx: the 0-based position of the next identifier
    values,     \* the list values
    full_sql,   \* the text to write
    log,        \* what the run has printed
    err,        \* the exception that ended the run, "none" when there is none
    last        \* how the run before this one ended: "none", "done", "failed"

vars == <<themes, family, odd, output, before, pc, idx, values, full_sql, log, err, last>>

\* ------------------------------------------------------------------------
\* Program constants

THEMES_TO_SEED ==
    << "modern-bistro", "warm-comfort", "vibrant-energy", "elegant-simplicity",
       "urban-fresh", "coastal-breeze", "spicy-fusion", "garden-fresh",
       "premium-dark", "playful-pop" >>

NumThemes == Len(THEMES_TO_SEED)

\* idx + 7 of the row template
SortOffset == 7

sql_header == << "-- Migration 078 ... INSERT INTO theme_presets (name, slug, category, description, preset_data, sort_order) VALUES\n" >>

sql_footer == << "\nON CONFLICT (slug) DO UPDATE SET ... updated_at = CURRENT_TIMESTAMP;\n" >>

\* ------------------------------------------------------------------------
\* Tokens

DQ  == "\""          \* the double quote
SQ  == "'"           \* the single quote
DOL == "$"           \* the dollar sign
SUR == "<U+D800>"    \* a lone surrogate code point (inside a Python str)

EscDQ  == "\\\""     \* the two characters \"  in JSON text
EscSQ  == "\\u0027"  \* the escape \u0027 in JSON text: a single quote
EscSUR == "\\ud800"  \* the escape \ud800 in JSON text: a lone surrogate

JsonPunct == { "{", "}", "[", "]", ":", "," }
JsonSpace == { " ", "\n" }
JsonDigits == { "5" }

\* ------------------------------------------------------------------------
\* Python values as json.load builds them.  t is the type, s the text of a
\* str or of a number, m the members of a dict (in insertion order) or the
\* elements of a list (with key <<>>).

StrV(s)  == [t |-> "str",  s |-> s,    m |-> <<>>]
NumV(s)  == [t |-> "num",  s |-> s,    m |-> <<>>]
NoneV    == [t |-> "none", s |-> <<>>, m |-> <<>>]
DictV(m) == [t |-> "dict", s |-> <<>>, m |-> m]
ListV(m) == [t |-> "list", s |-> <<>>, m |-> m]

Member(k, v) == [key |-> k, val |-> v]

\* d[k] = v on a dict's members: a key already there keeps its place and
\* takes the new value, a new key goes last.
DictSet(m, k, v) ==
    IF \E i \in 1..Len(m) : m[i].key = k
    THEN [i \in 1..Len(m) |-> IF m[i].key = k THEN Member(k, v) ELSE m[i]]
    ELSE Append(m, Member(k, v))

\* d.get(k, default) on a dict value
DictGet(d, k, default) ==
    IF \E i \in 1..Len(d.m) : d.m[i].key = k
    THEN d.m[CHOOSE i \in 1..Len(d.m) : d.m[i].key = k].val
    ELSE default

\* ------------------------------------------------------------------------
\* json.load: the scanner

Lexeme(k, s) == [k |-> k, s |-> s]

\* The character an escape or a raw token inside a JSON string stands for.
DecodeChar(c) ==
    CASE c = EscDQ  -> DQ
      [] c = EscSQ  -> SQ
      [] c = EscSUR -> SUR
      [] OTHER      -> c

\* Position of the first double quote at or after i, 0 when there is none.
RECURSIVE CloseQuote(_, _)
CloseQuote(text, i) ==
    IF i > Len(text) THEN 0
    ELSE IF text[i] = DQ THEN i
    ELSE CloseQuote(text, i + 1)

RECURSIVE LexFrom(_, _)
LexFrom(text, i) ==
    IF i > Len(text) THEN <<>>
    ELSE LET c == text[i] IN
         IF c \in JsonSpace THEN LexFrom(text, i + 1)
         ELSE IF c \in JsonPunct THEN <<Lexeme(c, <<>>)>> \o LexFrom(text, i + 1)
         ELSE IF c \in JsonDigits THEN <<Lexeme("num", <<c>>)>> \o LexFrom(text, i + 1)
         ELSE IF c = "null" THEN <<Lexeme("null", <<>>)>> \o LexFrom(text, i + 1)
         ELSE IF c = DQ
              THEN LET j == CloseQuote(text, i + 1) IN
                   IF j = 0 THEN <<Lexeme("bad", <<>>)>>
                   ELSE <<Lexeme("str", [n \in 1..(j - i - 1) |-> DecodeChar(text[i + n])])>>
                        \o LexFrom(text, j + 1)
         ELSE <<Lexeme("bad", <<>>)>>

\* ------------------------------------------------------------------------
\* json.load: the parser.  A result is [ok, val, next]: next is the
\* position of the first lexeme after the value.

ParseFail == [ok |-> FALSE, val |-> NoneV, next |-> 0]
ParseOk(v, n) == [ok |-> TRUE, val |-> v, next |-> n]

RECURSIVE ParseValue(_, _)
RECURSIVE ParseMembers(_, _, _)
RECURSIVE ParseElements(_, _, _)

ParseValue(lx, i) ==
    IF i > Len(lx) THEN ParseFail
    ELSE CASE lx[i].k = "str"  -> ParseOk(StrV(lx[i].s), i + 1)
           [] lx[i].k = "num"  -> ParseOk(NumV(lx[i].s), i + 1)
           [] lx[i].k = "null" -> ParseOk(NoneV, i + 1)
           [] lx[i].k = "{"    ->
                IF i + 1 <= Len(lx) /\ lx[i + 1].k = "}"
                THEN ParseOk(DictV(<<>>), i + 2)
                ELSE ParseMembers(lx, i + 1, <<>>)
           [] lx[i].k = "["    ->
                IF i + 1 <= Len(lx) /\ lx[i + 1].k = "]"
                THEN ParseOk(ListV(<<>>), i + 2)
                ELSE ParseElements(lx, i + 1, <<>>)
           [] OTHER -> ParseFail

ParseMembers(lx, i, acc) ==
    IF i + 1 > Len(lx) \/ lx[i].k # "str" \/ lx[i + 1].k # ":" THEN ParseFail
    ELSE LET r == ParseValue(lx, i + 2) IN
         IF ~r.ok \/ r.next > Len(lx) THEN ParseFail
         ELSE LET acc2 == DictSet(acc, lx[i].s, r.val) IN
              CASE lx[r.next].k = "}" -> ParseOk(DictV(acc2), r.next + 1)
                [] lx[r.next].k = "," -> ParseMembers(lx, r.next + 1, acc2)
                [] OTHER -> ParseFail

ParseElements(lx, i, acc) ==
    LET r == ParseValue(lx, i) IN
    IF ~r.ok \/ r.next > Len(lx) THEN ParseFail
    ELSE LET acc2 == Append(acc, Member(<<>>, r.val)) IN
         CASE lx[r.next].k = "]" -> ParseOk(ListV(acc2), r.next + 1)
           [] lx[r.next].k = "," -> ParseElements(lx, r.next + 1, acc2)
           [] OTHER -> ParseFail

\* json.load(f): the whole text is one JSON value, or JSONDecodeError.
JsonLoad(text) ==
    LET lx == LexFrom(text, 1)
        r  == ParseValue(lx, 1)
    IN IF r.ok /\ r.next = Len(lx) + 1 THEN r ELSE ParseFail

\* ------------------------------------------------------------------------
\* json.dumps(obj, ensure_ascii=False): item separator ", ", key separator
\* ": ", a double quote inside a string written \", every other character
\* written as it is (a lone surrogate included).

EncodeChar(c) == IF c = DQ THEN EscDQ ELSE c

DumpStr(s) == <<DQ>> \o [n \in 1..Len(s) |-> EncodeChar(s[n])] \o <<DQ>>

RECURSIVE JsonDumps(_)
RECURSIVE DumpItems(_, _, _)

DumpItems(m, i, isDict) ==
    IF i > Len(m) THEN <<>>
    ELSE (IF i > 1 THEN <<",", " ">> ELSE <<>>)
         \o (IF isDict THEN DumpStr(m[i].key) \o <<":", " ">> ELSE <<>>)
         \o JsonDumps(m[i].val)
         \o DumpItems(m, i + 1, isDict)

JsonDumps(v) ==
    CASE v.t = "str"  -> DumpStr(v.s)
      [] v.t = "num"  -> v.s
      [] v.t = "none" -> <<"null">>
      [] v.t = "dict" -> <<"{">> \o DumpItems(v.m, 1, TRUE) \o <<"}">>
      [] v.t = "list" -> <<"[">> \o DumpItems(v.m, 1, FALSE) \o <<"]">>

\* ------------------------------------------------------------------------
\* The row template of generate_sql (an f-string) and what it applies to
\* its fields.

ROW_OPEN  == "(\n    "
FIELD_SEP == ",\n    "
CAST      == "::jsonb"
ROW_CLOSE == "\n)"
JOINER    == ",\n"

\* s.replace("'", "''")
RECURSIVE ReplaceQuote(_)
ReplaceQuote(s) ==
    IF s = <<>> THEN <<>>
    ELSE (IF Head(s) = SQ THEN <<SQ, SQ>> ELSE <<Head(s)>>) \o ReplaceQuote(Tail(s))

\* What an f-string writes for {x}: str(x).
PyFormat(v) ==
    CASE v.t = "str"  -> v.s
      [] v.t = "num"  -> v.s
      [] v.t = "none" -> <<"None">>

\* The f-string of the row: name and description are str values (replace is
\* called on them), category is any value, json_str and slug are text.
FormatValue(name, slug, category, description, json_str, i) ==
    <<ROW_OPEN, SQ>> \o ReplaceQuote(name.s)
    \o <<SQ, FIELD_SEP, SQ, slug, SQ, FIELD_SEP, SQ>> \o PyFormat(category)
    \o <<SQ, FIELD_SEP, SQ>> \o ReplaceQuote(description.s)
    \o <<SQ, FIELD_SEP, DOL, DOL>> \o json_str
    \o <<DOL, DOL, CAST, FIELD_SEP, ToString(i + SortOffset), ROW_CLOSE>>

KeyMeta        == <<"meta">>
KeyName        == <<"name">>
KeyCategory    == <<"category">>
KeyDescription == <<"description">>
DefaultCategory == <<"professional">>

\* The four names the loop body binds from theme_data.
MetaOf(theme_data)            == DictGet(theme_data, KeyMeta, DictV(<<>>))

\* NameOf with the empty string for default.
NameOfEmptyDefault(theme_data, slug) == DictGet(MetaOf(theme_data), KeyName, StrV(<<>>))

NameOf(theme_data, slug)      == DictGet(MetaOf(theme_data), KeyName, StrV(<<slug>>))
CategoryOf(theme_data)        == DictGet(MetaOf(theme_data), KeyCategory, StrV(DefaultCategory))
DescriptionOf(theme_data)     == DictGet(MetaOf(theme_data), KeyDescription, StrV(<<>>))

\* The loop body raises AttributeError when .get is called on a value that
\* is no dict or .replace on a value that is no str.
RaisesAttributeError(theme_data, slug) ==
    \/ theme_data.t # "dict"
    \/ MetaOf(theme_data).t # "dict"
    \/ NameOf(theme_data, slug).t # "str"
    \/ DescriptionOf(theme_data).t # "str"

\* RowFor with sort_order counted from the rows made so far.
RowForByCount(theme_data, slug, i) ==
    FormatValue(NameOf(theme_data, slug), slug, CategoryOf(theme_data),
                DescriptionOf(theme_data), JsonDumps(theme_data), Len(values))

\* RowFor with only meta serialized into preset_data.
RowForMetaOnly(theme_data, slug, i) ==
    FormatValue(NameOf(theme_data, slug), slug, CategoryOf(theme_data),
                DescriptionOf(theme_data), JsonDumps(MetaOf(theme_data)), i)

\* The value appended for a theme whose document is theme_data.
RowFor(theme_data, slug, i) ==
    FormatValue(NameOf(theme_data, slug), slug, CategoryOf(theme_data),
                DescriptionOf(theme_data), JsonDumps(theme_data), i)

\* JoinValues joining from the last value to the first.
RECURSIVE JoinValuesReversed(_)
JoinValuesReversed(vs) ==
    IF vs = <<>> THEN <<>>
    ELSE IF Len(vs) = 1 THEN vs[1]
    ELSE JoinValuesReversed(Tail(vs)) \o <<JOINER>> \o vs[1]

\* ",\n".join(values)
RECURSIVE JoinValues(_)
JoinValues(vs) ==
    IF vs = <<>> THEN <<>>
    ELSE IF Len(vs) = 1 THEN vs[1]
    ELSE vs[1] \o <<JOINER>> \o JoinValues(Tail(vs))

FullSql(vs) == sql_header \o JoinValues(vs) \o sql_footer

\* f.write on a file opened with encoding="utf-8": a lone surrogate cannot
\* be encoded (UnicodeEncodeError).
Utf8Encodable(text) == \A i \in 1..Len(text) : text[i] # SUR

\* ------------------------------------------------------------------------
\* The file system: what can be found at <THEMES_DIR>/<slug>/theme.json.

\* "chars" as JSON text
Q(chars) == <<DQ>> \o chars \o <<DQ>>

EAcute    == "<U+00E9>"

\* {}
PlainText == <<"{", "}">>

\* {"meta": {"name": "Chef's Table", "category": "fine", "description": "it's"},
\*  "colors": {"primary": "<e acute>"}}
TextAllFields ==
    <<"{">> \o Q(KeyMeta) \o <<":", " ", "{">>
    \o Q(KeyName) \o <<":">> \o Q(<<"Chef", SQ, "s Table">>) \o <<",">>
    \o Q(KeyCategory) \o <<":">> \o Q(<<"fine">>) \o <<",">>
    \o Q(KeyDescription) \o <<":">> \o Q(<<"it", SQ, "s">>) \o <<"}", ",">>
    \o Q(<<"colors">>) \o <<":", "{">> \o Q(<<"primary">>) \o <<":">> \o Q(<<EAcute>>)
    \o <<"}", "}">>

\* {"meta":{"category":"kid's"}}
TextCategoryQuote ==
    <<"{">> \o Q(KeyMeta) \o <<":", "{">>
    \o Q(KeyCategory) \o <<":">> \o Q(<<"kid", SQ, "s">>) \o <<"}", "}">>

\* {"meta":{"description":"a$$b"}}
TextDollars ==
    <<"{">> \o Q(KeyMeta) \o <<":", "{">>
    \o Q(KeyDescription) \o <<":">> \o Q(<<"a", DOL, DOL, "b">>) \o <<"}", "}">>

\* { "meta" : {"name":"x"} , "meta":{"name":"y","name":"z'\""}, "tags":[5,null] }
\* with the single quote written as the escape u0027
TextDuplicates ==
    <<"{", " ">> \o Q(KeyMeta) \o <<" ", ":", " ", "{">>
    \o Q(KeyName) \o <<":">> \o Q(<<"x">>) \o <<"}", " ", ",", " ">>
    \o Q(KeyMeta) \o <<":", "{">>
    \o Q(KeyName) \o <<":">> \o Q(<<"y">>) \o <<",">>
    \o Q(KeyName) \o <<":">> \o Q(<<"z", EscSQ, EscDQ>>) \o <<"}", ",", " ">>
    \o Q(<<"tags">>) \o <<":", "[", "5", ",", "null", "]", " ", "}">>

\* {"meta":{}}
TextEmptyMeta == <<"{">> \o Q(KeyMeta) \o <<":", "{", "}", "}">>

\* {"meta":{"name":"n","description":"d"}}
TextNameDescription ==
    <<"{">> \o Q(KeyMeta) \o <<":", "{">>
    \o Q(KeyName) \o <<":">> \o Q(<<"n">>) \o <<",">>
    \o Q(KeyDescription) \o <<":">> \o Q(<<"d">>) \o <<"}", "}">>

\* {"meta":{"name":"n","category":"c"}}
TextNameCategory ==
    <<"{">> \o Q(KeyMeta) \o <<":", "{">>
    \o Q(KeyName) \o <<":">> \o Q(<<"n">>) \o <<",">>
    \o Q(KeyCategory) \o <<":">> \o Q(<<"c">>) \o <<"}", "}">>

\* {"meta":{"category":5,"description":"d"}}
TextCategoryNumber ==
    <<"{">> \o Q(KeyMeta) \o <<":", "{">>
    \o Q(KeyCategory) \o <<":", "5", ",">>
    \o Q(KeyDescription) \o <<":">> \o Q(<<"d">>) \o <<"}", "}">>

\* {"meta":{"name":"\ud800"}}
TextSurrogate ==
    <<"{">> \o Q(KeyMeta) \o <<":", "{">>
    \o Q(KeyName) \o <<":">> \o Q(<<EscSUR>>) \o <<"}", "}">>

\* {"meta":{"name":"n"},}     a trailing comma
TextTrailingComma ==
    <<"{">> \o Q(KeyMeta) \o <<":", "{">>
    \o Q(KeyName) \o <<":">> \o Q(<<"n">>) \o <<"}", ",", "}">>

\* {"meta":{"name":"n      the text ends inside a string
TextTruncated ==
    <<"{">> \o Q(KeyMeta) \o <<":", "{">> \o Q(KeyName) \o <<":", DQ, "n">>

\* []
TextTopLevelList == <<"[", "]">>

\* {"meta":null}
TextMetaNull == <<"{">> \o Q(KeyMeta) \o <<":", "null", "}">>

\* {"meta":{"name":5}}
TextNameNumber ==
    <<"{">> \o Q(KeyMeta) \o <<":", "{">> \o Q(KeyName) \o <<":", "5", "}", "}">>

\* {"meta":{"description":null}}
TextDescriptionNull ==
    <<"{">> \o Q(KeyMeta) \o <<":", "{">> \o Q(KeyDescription) \o <<":", "null", "}", "}">>

\* The documents, other than the plain one, that the loop body makes a row of.
RichTexts ==
    { TextAllFields, TextCategoryQuote, TextDollars, TextDuplicates, TextEmptyMeta,
      TextNameDescription, TextNameCategory, TextCategoryNumber, TextSurrogate }

\* Text that is not JSON.
MalformedTexts == { TextTrailingComma, TextTruncated }

\* JSON of a shape the loop body does not take.
OddTexts == { TextTopLevelList, TextMetaNull, TextNameNumber, TextDescriptionNull }

\* A path of the file system: nothing there, a file that can be read, or a
\* file that open() refuses (no permission, bytes that are not UTF-8).
\* Unknown is a path the run has not looked at yet.
Unknown      == [kind |-> "unknown",    text |-> <<>>]
Absent       == [kind |-> "absent",     text |-> <<>>]
Unreadable   == [kind |-> "unreadable", text |-> <<>>]
File(text)   == [kind |-> "file",       text |-> text]

RichFiles    == { File(t) : t \in RichTexts }
BrokenFiles  == { File(t) : t \in MalformedTexts \cup OddTexts } \cup { Unreadable }

\* The migration file: absent, or a file with some text.
NoFile       == [exists |-> FALSE, text |-> <<>>]
OldFile      == [exists |-> TRUE,  text |-> <<"-- the previous migration text">>]

\* ------------------------------------------------------------------------
\* The run

Line(msg, slug) == [msg |-> msg, slug |-> slug]

\* print(f"Reading themes from: {THEMES_DIR}")
StartLog == << Line("Reading themes from", "") >>

\* generate_sql is called: the theme files are whatever they are (the run
\* learns of each one when it looks at it), the migration file is there
\* or not.
Init ==
    /\ themes = [i \in 1..NumThemes |-> Unknown]
    /\ \/ family = "presence"  /\ odd = 0
       \/ family = "documents" /\ odd = MaxOdd
    /\ output \in {NoFile, OldFile}
    /\ before = output
    /\ pc = "loop"
    /\ idx = 0
    /\ values = <<>>
    /\ full_sql = <<>>
    /\ log = StartLog
    /\ err = "none"
    /\ last = "none"

\* What the run can find at a path: what it found there before, or, at a
\* path it looks at for the first time, any file the bounds allow.
Found(i) ==
    IF themes[i].kind # "unknown" THEN {themes[i]}
    ELSE {File(PlainText)}
         \cup (IF family = "presence" THEN {Absent} \cup BrokenFiles ELSE {})
         \cup (IF odd > 0 THEN {Absent} \cup RichFiles \cup BrokenFiles ELSE {})

\* Raise with what the run has made so far written out on the way (as a
\* finally clause that flushes would).
RaiseAfterFlush(e) ==
    /\ pc' = "failed"
    /\ err' = e
    /\ output' = [exists |-> TRUE, text |-> FullSql(values)]
    /\ UNCHANGED <<before, idx, values, full_sql, log>>

\* An exception leaves generate_sql: nothing after the raising statement runs.
Raise(e) ==
    /\ pc' = "failed"
    /\ err' = e
    /\ UNCHANGED <<output, before, idx, values, full_sql, log>>

\* Iterate with the continue left out: the loop body goes on to open the
\* file that is not there.
IterateNoContinue ==
    /\ pc = "loop"
    /\ idx < NumThemes
    /\ LET slug == THEMES_TO_SEED[idx + 1] IN
       \E f \in Found(idx + 1) :
          /\ themes' = [themes EXCEPT ![idx + 1] = f]
          /\ UNCHANGED <<family, last>>
          /\ odd' = IF themes[idx + 1].kind = "unknown" /\ odd > 0
                       /\ f # File(PlainText)
                    THEN odd - 1 ELSE odd
          /\ IF f.kind = "absent"
             THEN /\ log' = Append(log, Line("Warning: Theme not found", slug))
                  /\ pc' = "failed"
                  /\ err' = "OSError"
                  /\ UNCHANGED <<output, before, idx, values, full_sql>>
             ELSE IF f.kind = "unreadable"
             THEN Raise("OSError")
             ELSE LET r == JsonLoad(f.text) IN
                  IF ~r.ok THEN Raise("JSONDecodeError")
                  ELSE IF RaisesAttributeError(r.val, slug) THEN Raise("AttributeError")
                  ELSE /\ values' = Append(values, RowFor(r.val, slug, idx))
                       /\ idx' = idx + 1
                       /\ UNCHANGED <<output, before, pc, full_sql, log, err>>

\* One iteration of the for loop over THEMES_TO_SEED.
Iterate ==
    /\ pc = "loop"
    /\ idx < NumThemes
    /\ LET slug == THEMES_TO_SEED[idx + 1] IN
       \E f \in Found(idx + 1) :
          /\ themes' = [themes EXCEPT ![idx + 1] = f]
          /\ UNCHANGED <<family, last>>
          /\ odd' = IF themes[idx + 1].kind = "unknown" /\ odd > 0
                       /\ f # File(PlainText)
                    THEN odd - 1 ELSE odd
          /\ IF f.kind = "absent"
             THEN \* not os.path.exists: warn and continue
                  /\ log' = Append(log, Line("Warning: Theme not found", slug))
                  /\ idx' = idx + 1
                  /\ UNCHANGED <<output, before, pc, values, full_sql, err>>
             ELSE IF f.kind = "unreadable"
             THEN Raise("OSError")
             ELSE LET r == JsonLoad(f.text) IN
                  IF ~r.ok THEN Raise("JSONDecodeError")
                  ELSE IF RaisesAttributeError(r.val, slug) THEN Raise("AttributeError")
                  ELSE /\ values' = Append(values, RowFor(r.val, slug, idx))
                       /\ idx' = idx + 1
                       /\ UNCHANGED <<output, before, pc, full_sql, log, err>>

\* OpenOutput with the file opened with mode "a": what is in it stays.
OpenOutputAppend ==
    /\ pc = "loop"
    /\ idx = NumThemes
    /\ full_sql' = FullSql(values)
    /\ \E writable \in BOOLEAN :
          IF writable
          THEN /\ output' = [exists |-> TRUE, text |-> output.text]
               /\ pc' = "write"
               /\ err' = "none"
          ELSE /\ pc' = "failed"
               /\ err' = "OSError"
               /\ UNCHANGED output
    /\ UNCHANGED <<themes, family, odd, last, before, idx, values, log>>

\* The loop is over: full_sql is put together and the migration file is
\* opened with mode "w", which empties it or creates it; the open fails
\* when the path cannot be written (no directory, no permission).
OpenOutput ==
    /\ pc = "loop"
    /\ idx = NumThemes
    /\ full_sql' = FullSql(values)
    /\ \E writable \in BOOLEAN :
          IF writable
          THEN /\ output' = [exists |-> TRUE, text |-> <<>>]
               /\ pc' = "write"
               /\ err' = "none"
          ELSE /\ pc' = "failed"
               /\ err' = "OSError"
               /\ UNCHANGED output
    /\ UNCHANGED <<themes, family, odd, last, before, idx, values, log>>

\* f.write(full_sql) at the end of what the open left of the file, the
\* file is closed, the last print.
WriteOutput ==
    /\ pc = "write"
    /\ IF Utf8Encodable(full_sql)
       THEN /\ output' = [exists |-> TRUE, text |-> output.text \o full_sql]
            /\ pc' = "done"
            /\ log' = Append(log, Line("Successfully generated migration file", ""))
            /\ err' = "none"
       ELSE /\ pc' = "failed"
            /\ err' = "UnicodeEncodeError"
            /\ UNCHANGED <<output, log>>
    /\ UNCHANGED <<themes, family, odd, last, before, idx, values, full_sql>>

\* generate_sql is called again over the same theme files.
Rerun ==
    /\ pc \in {"done", "failed"}
    /\ before' = output
    /\ pc' = "loop"
    /\ idx' = 0
    /\ values' = <<>>
    /\ full_sql' = <<>>
    /\ log' = StartLog
    /\ err' = "none"
    /\ last' = pc
    /\ UNCHANGED <<themes, family, odd, output>>

Next == Iterate \/ OpenOutput \/ WriteOutput

Spec == Init /\ [][Next]_vars

NextRerun == Next \/ Rerun

SpecRerun == Init /\ [][NextRerun]_vars

\* ------------------------------------------------------------------------
\* Reading the migration text back, as text: the tuples between header and
\* footer, and the six fields of a tuple, found by the fixed pieces of the
\* template.

At(text, i) == IF i \in 1..Len(text) THEN text[i] ELSE ""

Drop(text, n) == SubSeq(text, n + 1, Len(text))

\* Position of the first sep in text, 0 when there is none.
RECURSIVE IndexOf(_, _, _)
IndexOf(text, sep, i) ==
    IF i > Len(text) THEN 0
    ELSE IF text[i] = sep THEN i
    ELSE IndexOf(text, sep, i + 1)

RECURSIVE SplitAt(_, _)
SplitAt(text, sep) ==
    LET p == IndexOf(text, sep, 1) IN
    IF p = 0 THEN <<text>>
    ELSE <<SubSeq(text, 1, p - 1)>> \o SplitAt(Drop(text, p), sep)

HasFrame(text) ==
    /\ Len(text) >= Len(sql_header) + Len(sql_footer)
    /\ SubSeq(text, 1, Len(sql_header)) = sql_header
    /\ Drop(text, Len(text) - Len(sql_footer)) = sql_footer

Body(text) == SubSeq(text, Len(sql_header) + 1, Len(text) - Len(sql_footer))

Tuples(text) == IF Body(text) = <<>> THEN <<>> ELSE SplitAt(Body(text), JOINER)

TupleFields(tuple) == SplitAt(SubSeq(tuple, 2, Len(tuple) - 1), FIELD_SEP)

IsTuple(tuple) ==
    /\ Len(tuple) >= 2
    /\ tuple[1] = ROW_OPEN
    /\ tuple[Len(tuple)] = ROW_CLOSE
    /\ Len(TupleFields(tuple)) = 6

NameField(tuple)        == TupleFields(tuple)[1]
SlugField(tuple)        == TupleFields(tuple)[2]
CategoryField(tuple)    == TupleFields(tuple)[3]
DescriptionField(tuple) == TupleFields(tuple)[4]
PayloadField(tuple)     == TupleFields(tuple)[5]
SortField(tuple)        == TupleFields(tuple)[6]

\* The text between $$ and $$::jsonb
Payload(tuple) ==
    LET f == PayloadField(tuple) IN SubSeq(f, 3, Len(f) - 3)

HasPayload(tuple) ==
    LET f == PayloadField(tuple) IN
    /\ Len(f) >= 5
    /\ SubSeq(f, 1, 2) = <<DOL, DOL>>
    /\ Drop(f, Len(f) - 3) = <<DOL, DOL, CAST>>

\* The positions (1-based) in THEMES_TO_SEED of the theme files among the
\* first n that are there, in order.
RECURSIVE PresentUpTo(_)
PresentUpTo(n) ==
    IF n = 0 THEN <<>>
    ELSE PresentUpTo(n - 1) \o (IF themes[n].kind = "file" THEN <<n>> ELSE <<>>)

\* The number a sort_order token writes.
NumberOf(tok) ==
    IF \E n \in 0..99 : ToString(n) = tok
    THEN CHOOSE n \in 0..99 : ToString(n) = tok
    ELSE -1

\* ------------------------------------------------------------------------
\* The claims

SlugsOf(tuples) == [k \in 1..Len(tuples) |-> SlugField(tuples[k])]

QuotedSlug(i) == <<SQ, THEMES_TO_SEED[i], SQ>>

PresentSlugs ==
    LET present == PresentUpTo(NumThemes) IN
    [k \in 1..Len(present) |-> QuotedSlug(present[k])]

\* C1: the text a run that completes has written holds, between header and
\* footer, one tuple for each theme file that is there and no other tuple,
\* in the order of THEMES_TO_SEED: the slug fields of its tuples, read in
\* order, are the identifiers of the theme files that are there.
C1_OneTuplePerPresentTheme ==
    pc = "done" =>
        LET ts == Tuples(output.text) IN
        /\ HasFrame(output.text)
        /\ \A k \in 1..Len(ts) : IsTuple(ts[k])
        /\ SlugsOf(ts) = PresentSlugs

C1_Witness ==
    /\ pc = "done"
    /\ themes[1].kind = "absent"
    /\ themes[2].kind = "file"
    /\ themes[3].kind = "absent"
    /\ themes[4].kind = "file"
    /\ Len(Tuples(output.text)) = 4

WarningsFor(slug) ==
    Cardinality({n \in 1..Len(log) : log[n] = Line("Warning: Theme not found", slug)})

\* C2: a theme file that is absent gets one warning and no row, and does
\* not end the run: the loop goes on to the next identifier, a run that
\* fails in the loop fails at a file that is there, and a run over a file
\* system with only garden-fresh absent that completes has written 9 tuples.
C2_AbsentIsSkipped ==
    /\ \A i \in 1..NumThemes :
          (i <= idx /\ themes[i].kind = "absent") =>
              /\ WarningsFor(THEMES_TO_SEED[i]) = 1
              /\ \A k \in 1..Len(values) : SlugField(values[k]) # QuotedSlug(i)
    /\ (pc = "failed" /\ idx < NumThemes) => themes[idx + 1].kind # "absent"
    /\ (pc = "done" /\ \A i \in 1..NumThemes : (themes[i].kind = "absent") <=> (i = 8)) =>
          Len(Tuples(output.text)) = 9

C2_Witness ==
    /\ pc = "done"
    /\ \A i \in 1..NumThemes : (themes[i].kind = "absent") <=> (i = 8)
    /\ WarningsFor("garden-fresh") = 1

PositionOf(quoted) ==
    IF \E i \in 1..NumThemes : QuotedSlug(i) = quoted
    THEN CHOOSE i \in 1..NumThemes : QuotedSlug(i) = quoted
    ELSE 0

SortOrderOf(tuple) == NumberOf(SortField(tuple)[1])

\* C3: in the text a run that completes has written, the sort_order of the
\* tuple of the identifier at 0-based position i of THEMES_TO_SEED is
\* i + 7, whatever was skipped before it (modern-bistro 7, playful-pop 16),
\* and the sort_order values increase strictly and lie in 7..16.
C3_SortOrderFromListPosition ==
    pc = "done" =>
        LET ts == Tuples(output.text)
            so == [k \in 1..Len(ts) |-> SortOrderOf(ts[k])]
            at == [k \in 1..Len(ts) |-> PositionOf(SlugField(ts[k]))]
        IN
        /\ \A k \in 1..Len(ts) :
              /\ Len(SortField(ts[k])) = 1
              /\ at[k] > 0
              /\ so[k] = (at[k] - 1) + 7
              /\ so[k] \in 7..16
              /\ at[k] = 1  => so[k] = 7
              /\ at[k] = 10 => so[k] = 16
        /\ \A k \in 1..(Len(ts) - 1) : so[k] < so[k + 1]

C3_Witness ==
    /\ pc = "done"
    /\ themes[1].kind = "absent"
    /\ themes[9].kind = "absent"
    /\ themes[10].kind = "file"
    /\ Len(Tuples(output.text)) = 8
    /\ SlugField(Tuples(output.text)[8]) = QuotedSlug(10)
    /\ SortOrderOf(Tuples(output.text)[8]) = 16

\* C4: a theme file that is there and holds malformed JSON ends the run
\* at its identifier with JSONDecodeError: no later theme file is looked
\* at, the write step is not reached (full_sql is never put together and
\* nothing more happens), and the migration file is as it was before the
\* run, with none of the rows made before the failure in it.
C4_MalformedJsonAborts ==
    /\ \A i \in 1..NumThemes :
          (themes[i].kind = "file" /\ themes[i].text \in MalformedTexts) =>
              /\ pc = "failed"
              /\ err = "JSONDecodeError"
              /\ idx = i - 1
    /\ err = "JSONDecodeError" =>
          /\ pc = "failed"
          /\ idx < NumThemes
          /\ themes[idx + 1].kind = "file"
          /\ themes[idx + 1].text \in MalformedTexts
          /\ \A j \in (idx + 2)..NumThemes : themes[j] = Unknown
          /\ full_sql = <<>>
          /\ output = before
          /\ ~ENABLED Next

C4_Witness ==
    /\ err = "JSONDecodeError"
    /\ themes[3].text = TextTrailingComma
    /\ Len(values) = 2
    /\ before = OldFile
    /\ output = OldFile

\* C5 (as claimed): whenever the run has ended with an error, the
\* migration file is as it was before the run.
C5_NoFatalErrorTouchesOutput ==
    pc = "failed" => output = before

\* ------------------------------------------------------------------------
\* Reading the migration text back as PostgreSQL does: a string constant
\* runs from a quote to the next quote that is not doubled, a
\* dollar-quoted constant from $$ to the next $$.

SqlFail == [ok |-> FALSE, val |-> <<>>, next |-> 0]
SqlOk(v, n) == [ok |-> TRUE, val |-> v, next |-> n]

RECURSIVE SqlLiteralBody(_, _, _)
SqlLiteralBody(text, j, acc) ==
    IF j > Len(text) THEN SqlFail
    ELSE IF text[j] = SQ
         THEN IF At(text, j + 1) = SQ
              THEN SqlLiteralBody(text, j + 2, Append(acc, SQ))
              ELSE SqlOk(acc, j + 1)
         ELSE SqlLiteralBody(text, j + 1, Append(acc, text[j]))

SqlLiteral(text, i) ==
    IF At(text, i) = SQ THEN SqlLiteralBody(text, i + 1, <<>>) ELSE SqlFail

RECURSIVE SqlDollarEnd(_, _)
SqlDollarEnd(text, j) ==
    IF j + 1 > Len(text) THEN 0
    ELSE IF text[j] = DOL /\ text[j + 1] = DOL THEN j
    ELSE SqlDollarEnd(text, j + 1)

SqlDollar(text, i) ==
    IF At(text, i) = DOL /\ At(text, i + 1) = DOL
    THEN LET j == SqlDollarEnd(text, i + 2) IN
         IF j = 0 THEN SqlFail ELSE SqlOk(SubSeq(text, i + 2, j - 1), j + 2)
    ELSE SqlFail

\* The literal that follows the field separator at r.next, r the result
\* for the field before.
SqlNextLiteral(text, r) ==
    IF r.ok /\ At(text, r.next) = FIELD_SEP THEN SqlLiteral(text, r.next + 1) ELSE SqlFail

NoRow == [name |-> <<>>, slug |-> <<>>, category |-> <<>>, description |-> <<>>,
          preset_data |-> <<>>, sort_order |-> -1]

\* The row constructor that starts at position i.
SqlRow(text, i) ==
    LET n == IF At(text, i) = ROW_OPEN THEN SqlLiteral(text, i + 1) ELSE SqlFail
        g == SqlNextLiteral(text, n)
        c == SqlNextLiteral(text, g)
        d == SqlNextLiteral(text, c)
        j == IF d.ok /\ At(text, d.next) = FIELD_SEP THEN SqlDollar(text, d.next + 1) ELSE SqlFail
    IN IF /\ j.ok
          /\ At(text, j.next) = CAST
          /\ At(text, j.next + 1) = FIELD_SEP
          /\ NumberOf(At(text, j.next + 2)) >= 0
          /\ At(text, j.next + 3) = ROW_CLOSE
       THEN [ok |-> TRUE, next |-> j.next + 4,
             row |-> [name |-> n.val, slug |-> g.val, category |-> c.val,
                      description |-> d.val, preset_data |-> j.val,
                      sort_order |-> NumberOf(At(text, j.next + 2))]]
       ELSE [ok |-> FALSE, next |-> 0, row |-> NoRow]

RECURSIVE SqlRows(_, _, _)
SqlRows(text, i, acc) ==
    LET r == SqlRow(text, i) IN
    IF ~r.ok THEN [ok |-> FALSE, rows |-> acc]
    ELSE IF At(text, r.next) = JOINER THEN SqlRows(text, r.next + 1, Append(acc, r.row))
    ELSE IF At(text, r.next) = sql_footer[1] /\ r.next = Len(text)
         THEN [ok |-> TRUE, rows |-> Append(acc, r.row)]
    ELSE [ok |-> FALSE, rows |-> acc]

\* INSERT INTO ... VALUES row, row, ... ON CONFLICT ...: at least one row.
SqlInsert(text) ==
    IF At(text, 1) = sql_header[1] THEN SqlRows(text, 2, <<>>)
    ELSE [ok |-> FALSE, rows |-> <<>>]

\* C6 (as claimed): whatever theme files are absent, the text a run that
\* completes has written is a well-formed INSERT statement: header, the
\* rows of the theme files that are there with one separator between two
\* rows, footer.
C6_OutputIsWellFormedInsert ==
    pc = "done" =>
        /\ SqlInsert(output.text).ok
        /\ Len(SqlInsert(output.text).rows) = Len(PresentUpTo(NumThemes))

QuotesIn(s) == Cardinality({n \in 1..Len(s) : s[n] = SQ})

\* The document of the k-th row the run has made.
DocOfRow(k) == JsonLoad(themes[PresentUpTo(idx)[k]].text).val
SlugOfRow(k) == THEMES_TO_SEED[PresentUpTo(idx)[k]]

\* C7 (as claimed): in the text a run that completes has written, a single
\* quote of name or description is written as two, and every tuple reads
\* as SQL: four string constants that are the theme's name, slug, category
\* and description, and a dollar-quoted constant that is the whole payload.
C7_QuotesEscapedAndSqlValid ==
    pc = "done" =>
        \A k \in 1..Len(Tuples(output.text)) :
            LET tuple == Tuples(output.text)[k]
                r     == SqlRow(tuple, 1)
                doc   == DocOfRow(k)
                slug  == SlugOfRow(k)
            IN /\ QuotesIn(NameField(tuple)) = 2 + 2 * QuotesIn(NameOf(doc, slug).s)
               /\ QuotesIn(DescriptionField(tuple)) = 2 + 2 * QuotesIn(DescriptionOf(doc).s)
               /\ r.ok
               /\ r.next = Len(tuple) + 1
               /\ r.row.name = NameOf(doc, slug).s
               /\ r.row.slug = <<slug>>
               /\ r.row.category = PyFormat(CategoryOf(doc))
               /\ r.row.description = DescriptionOf(doc).s
               /\ r.row.preset_data = Payload(tuple)

\* json.load of the payload of a row gives what json.load of text gives.
RoundTrip(tuple, text) ==
    /\ IsTuple(tuple)
    /\ HasPayload(tuple)
    /\ LET back == JsonLoad(Payload(tuple)) IN
       /\ back.ok
       /\ back.val = JsonLoad(text).val

\* C8: the payload of a row is JSON text, and json.load of it gives the
\* whole document json.load gave for the theme file: so it is for the row
\* the run has made last, and for every row and every tuple of the text
\* when the run has completed.
C8_PayloadRoundTrip ==
    LET present == PresentUpTo(idx) IN
    /\ Len(values) = Len(present)
    /\ values # <<>> =>
          RoundTrip(values[Len(values)], themes[present[Len(present)]].text)
    /\ pc = "done" =>
          LET ts == Tuples(output.text) IN
          /\ Len(ts) = Len(values)
          /\ \A k \in 1..Len(values) :
                /\ RoundTrip(values[k], themes[present[k]].text)
                /\ RoundTrip(ts[k], themes[present[k]].text)

C8_Witness ==
    /\ pc = "done"
    /\ themes[2].text = TextDuplicates
    /\ Payload(Tuples(output.text)[2]) # TextDuplicates
    /\ JsonLoad(Payload(Tuples(output.text)[2])).val = JsonLoad(TextDuplicates).val

\* The text the theme files as they are call for.
ExpectedSql ==
    LET present == PresentUpTo(NumThemes) IN
    FullSql([k \in 1..Len(present) |->
                RowFor(JsonLoad(themes[present[k]].text).val,
                       THEMES_TO_SEED[present[k]], present[k] - 1)])

\* C9: when a run has completed, the migration file holds header + rows +
\* footer made from the theme files and nothing of what it held before;
\* when the run before it over the same theme files had completed too,
\* the file is what that run left.
C9_OutputReplacedAndRepeatable ==
    pc = "done" =>
        /\ output = [exists |-> TRUE, text |-> ExpectedSql]
        /\ last = "done" => output = before

C9_Witness ==
    /\ pc = "done"
    /\ last = "done"
    /\ Len(values) >= 2
    /\ before.text = ExpectedSql

\* The name, category and description fields a theme file's row is to
\* have, worked out by hand from the text of the file.
Lit(chars) == <<SQ>> \o chars \o <<SQ>>

ExpectedFields(text, slug) ==
    CASE text = PlainText           -> << Lit(<<slug>>), Lit(<<"professional">>), Lit(<<>>) >>
      [] text = TextEmptyMeta       -> << Lit(<<slug>>), Lit(<<"professional">>), Lit(<<>>) >>
      [] text = TextAllFields       -> << Lit(<<"Chef", SQ, SQ, "s Table">>), Lit(<<"fine">>),
                                          Lit(<<"it", SQ, SQ, "s">>) >>
      [] text = TextCategoryQuote   -> << Lit(<<slug>>), Lit(<<"kid", SQ, "s">>), Lit(<<>>) >>
      [] text = TextDollars         -> << Lit(<<slug>>), Lit(<<"professional">>),
                                          Lit(<<"a", DOL, DOL, "b">>) >>
      [] text = TextDuplicates      -> << Lit(<<"z", SQ, SQ, DQ>>), Lit(<<"professional">>), Lit(<<>>) >>
      [] text = TextNameDescription -> << Lit(<<"n">>), Lit(<<"professional">>), Lit(<<"d">>) >>
      [] text = TextNameCategory    -> << Lit(<<"n">>), Lit(<<"c">>), Lit(<<>>) >>
      [] text = TextCategoryNumber  -> << Lit(<<slug>>), Lit(<<"5">>), Lit(<<"d">>) >>
      [] text = TextSurrogate       -> << Lit(<<SUR>>), Lit(<<"professional">>), Lit(<<>>) >>

\* The row has the fields the text of the theme file at position i calls for.
RowMatches(tuple, i) ==
    LET f == TupleFields(tuple) IN
    /\ Len(f) = 6
    /\ <<f[1], f[3], f[4]>> = ExpectedFields(themes[i].text, THEMES_TO_SEED[i])

\* Every row holds the fields the text of its theme file calls for: so it
\* is for the row the run has made last, and for every row when the run
\* has completed.
ColumnsFromMeta ==
    LET present == PresentUpTo(idx) IN
    /\ Len(values) = Len(present)
    /\ values # <<>> => RowMatches(values[Len(values)], present[Len(present)])
    /\ pc = "done" => \A k \in 1..Len(values) : RowMatches(values[k], present[k])

\* C10 (as claimed): name, category and description come from meta with
\* the defaults, for every shape of valid document, and a theme file that
\* is valid JSON never makes the run fail.
C10_ValidJsonNeverFails ==
    /\ ColumnsFromMeta
    /\ (pc = "failed" /\ idx < NumThemes /\ themes[idx + 1].kind = "file") =>
          themes[idx + 1].text \in MalformedTexts

\* C10 (amended): name, category and description come from meta with the
\* defaults for every document that is an object whose meta, when there, is
\* an object and whose name and description, when there, are strings, and
\* the loop body makes a row of every such document; valid JSON of another
\* shape ends the run in the loop body with AttributeError.
C10_ColumnsFromMetaWithDefaults ==
    /\ ColumnsFromMeta
    /\ (pc = "failed" /\ idx < NumThemes /\ themes[idx + 1].kind = "file") =>
          themes[idx + 1].text \in MalformedTexts \cup OddTexts
    /\ \A i \in 1..NumThemes :
          (themes[i].kind = "file" /\ themes[i].text \in OddTexts) =>
              /\ pc = "failed"
              /\ err = "AttributeError"
              /\ idx = i - 1

C10_Witness ==
    /\ pc = "done"
    /\ themes[4].text = TextCategoryNumber
    /\ Len(values) = NumThemes
    /\ CategoryField(values[4]) = Lit(<<"5">>)
    /\ NameField(values[4]) = Lit(<<"elegant-simplicity">>)

====
